---- MODULE Spec2Model ----
(***************************************************************************)
(* Model of the lazy image-loading subsystem (src/src/js/lazy-loading.js): *)
(* ImageLoader (load / retry state machine), the IntersectionObserver and  *)
(* the scroll-polling strategies, and the LazyLoadingManager.              *)
(*                                                                         *)
(* The browser runs every callback as one turn of its event loop; promise  *)
(* continuations (the code after an await, a .then callback) are           *)
(* microtasks that run to completion before the next event, so each action *)
(* below is one event together with the continuations it releases.         *)
(***************************************************************************)
EXTENDS Integers, Sequences, FiniteSets, Bags, TLC

\* ---------------------------------------------------------------- bounds
MaxProbes == 4          \* probes (new Image()) started over a run
MaxFocusTimers == 2     \* focus timers of the navigation menu pending at once
MaxHideTimers == 2      \* hide timers of the form status pending at once
MaxLinks == 4           \* nav links of the pages the key arithmetic is checked on

\* ------------------------------------------------------ program constants
RetryAttempts == 3      \* CONFIG.retryAttempts
RetryDelay    == 1000   \* CONFIG.retryDelay
Margin        == 50     \* the 50 px of checkVisibleImages

loadingClass     == "lazy-loading"
loadedClass      == "lazy-loaded"
errorClass       == "lazy-error"
placeholderClass == "lazy-placeholder"
MarkerClasses == {placeholderClass, loadingClass, loadedClass, errorClass}

\* The page: two images, window.innerHeight and every image's height in px.
Images == {1, 2}
Page == [windowHeight |-> 100, imgHeight |-> 50]
NoAttr == ""            \* an absent (or empty) attribute: both are falsy

\* ImageLoader objects created over a run: one for every image of the page
\* and one registration more.
MaxTasks == Cardinality(Images) + 1

\* Image i sits at document offset DocTop(i): image 1 is in the first screen,
\* image 2 is below the fold and comes within the margin at scroll offset 200.
DocTop(i) == (i - 1) * 300
ScrollPositions == {0, 200}

\* The markup of the two images. Image 1 carries a deferred source, a
\* deferred source set and a placeholder src, or no source at all; image 2
\* carries a src alone, a placeholder srcset and a deferred source set.
SrcConfigs(i) ==
  IF i = 1
  THEN { [dataSrc |-> "a.jpg", src |-> "ph.gif",
          dataSrcset |-> "a2.jpg 2x", srcset |-> NoAttr],
         [dataSrc |-> NoAttr,  src |-> NoAttr,
          dataSrcset |-> NoAttr, srcset |-> NoAttr] }
  ELSE { [dataSrc |-> NoAttr,  src |-> "b.jpg",
          dataSrcset |-> "b2.jpg 2x", srcset |-> "ph.gif 1x"] }

VARIABLES
  supportsIO,       \* host capability: supportsIntersectionObserver()
  hostRejects,      \* host: new IntersectionObserver(cb, options) throws
  lazyLoadingManager, \* window.lazyLoadingManager: "unset", "manager", "null"
  initRet,          \* how LazyLoadingManager.init() ended: "none" (not
                    \* called), "this", "null" or "throws"
  mgrLoader,        \* LazyLoadingManager.loader: "none", "io" or "fallback"
  gen,              \* number of strategy objects created so far (the live one)
  initialized,      \* the live strategy's initialized flag
  observerAlive,    \* primary strategy: this.observer is not null
  observed,         \* primary strategy: elements the observer observes
  images,           \* the live strategy's registry: image -> task id, 0 = absent
  tasks,            \* every ImageLoader created: <<[img, attempts, loaded]>>
  chains,           \* bag of load() calls in flight: [task, src, gen, st, delay,
                    \* behind], st a "probe" or a retry "timer"; behind: the
                    \* timer was set while the throttle timer was pending
  dom,              \* per image: inDoc, dataSrc, src, dataSrcset, srcset,
                    \* classes
  throttleTimeout,  \* fallback strategy: this.throttleTimeout is not null
  timers,           \* throttle timers set by handleScroll and still pending
  scrollTop,        \* window.pageYOffset
  domObservers,     \* MutationObservers attached by attachDOMObserver
  probes,           \* per image: probes started so far
  outcomes,         \* per image: results of the resolved probes, in order
  loads,            \* per image: load() calls that went on to probe
  delays,           \* per image: retries scheduled: [k: failed probes, delay]
  evLoaded,         \* per image: lazyloaded events dispatched
  evError,          \* per image: lazyerror events dispatched
  dispatched,       \* per image: the last CustomEvent dispatched on it
  last,             \* the load() call of the last event: [op, task, ret]
  nav,              \* the navigation module's state and the DOM it writes
  form              \* the contact form: its fields, button, status element,
                    \* pending hide timers and requests in flight

host == <<supportsIO, hostRejects>>
boot == <<lazyLoadingManager, initRet>>

loaderVars ==
  <<host, boot, mgrLoader, gen, initialized, observerAlive, observed,
    images, tasks, chains, dom, throttleTimeout, timers, scrollTop,
    domObservers, probes, outcomes, loads, delays, evLoaded, evError,
    dispatched, last>>

vars == <<loaderVars, nav, form>>

\* The part of the state the loader code reads and writes, as one record, so
\* that a handler calling other methods composes them as functions.
S ==
  [ observed |-> observed, images |-> images, tasks |-> tasks,
    chains |-> chains, dom |-> dom, probes |-> probes, outcomes |-> outcomes,
    loads |-> loads, delays |-> delays, evLoaded |-> evLoaded,
    evError |-> evError, dispatched |-> dispatched, ret |-> "none" ]

RECURSIVE SumOver(_, _)
SumOver(f, D) ==
  IF D = {} THEN 0
  ELSE LET x == CHOOSE y \in D : TRUE IN f[x] + SumOver(f, D \ {x})

\* The run stays within the bounds.
WithinBounds(s) ==
  /\ SumOver(s.probes, Images) <= MaxProbes
  /\ Len(s.tasks) <= MaxTasks

\* The handler's result s becomes the next state (if the run stays within the
\* bounds).
Commit(s) ==
  \E r \in {s} :
    /\ WithinBounds(r)
    /\ observed' = r.observed
    /\ images'   = r.images
    /\ tasks'    = r.tasks
    /\ chains'   = r.chains
    /\ dom'      = r.dom
    /\ probes'   = r.probes
    /\ outcomes' = r.outcomes
    /\ loads'    = r.loads
    /\ delays'   = r.delays
    /\ evLoaded' = r.evLoaded
    /\ evError'  = r.evError
    /\ dispatched' = r.dispatched

AddClass(s, i, c) == [s EXCEPT !.dom[i].classes = @ \cup {c}]
RemoveClass(s, i, c) == [s EXCEPT !.dom[i].classes = @ \ {c}]

\* ------------------------------------------------------------ ImageLoader

\* new ImageLoader(img, config)
NewImageLoader(i) == [img |-> i, attempts |-> 0, loaded |-> FALSE]

\* attemptLoad of loadWithRetry, for the load() call c (a chain record without
\* its state): this.attempts++, a new probe image, its src set.
AttemptLoad(s, c) ==
  LET i == s.tasks[c.task].img IN
  [s EXCEPT !.tasks[c.task].attempts = @ + 1,
            !.probes[i] = @ + 1,
            !.chains = @ (+) SetToBag({[c EXCEPT !.st = "probe", !.delay = 0,
                                                 !.behind = FALSE]})]

\* The source load() resolves: img.dataset.src || img.getAttribute('src')
ResolveSrc(d) == IF d.dataSrc # NoAttr THEN d.dataSrc ELSE d.src

\* load() without its loaded guard (lines 61-63 left out).
LoadWithoutLoadedGuard(s, t, g) ==
  LET i   == s.tasks[t].img
      src == ResolveSrc(s.dom[i])
  IN IF src = NoAttr THEN [s EXCEPT !.ret = "false"]
     ELSE LET s1 == AddClass(s, i, loadingClass)
              s2 == [s1 EXCEPT !.loads[i] = @ + 1, !.ret = "pending"]
          IN AttemptLoad(s2, [task |-> t, src |-> src, gen |-> g,
                              st |-> "probe", delay |-> 0, behind |-> FALSE])

\* load(), to its first await: the loaded guard, the source, the loading class
\* and the first attemptLoad. g is the strategy object whose callback waits for
\* the result (0: a caller outside the strategies).
Load(s, t, g) ==
  LET i   == s.tasks[t].img
      src == ResolveSrc(s.dom[i])
  IN IF s.tasks[t].loaded THEN [s EXCEPT !.ret = "true"]
     ELSE IF src = NoAttr THEN [s EXCEPT !.ret = "false"]
     ELSE LET s1 == AddClass(s, i, loadingClass)
              s2 == [s1 EXCEPT !.loads[i] = @ + 1, !.ret = "pending"]
          IN AttemptLoad(s2, [task |-> t, src |-> src, gen |-> g,
                              st |-> "probe", delay |-> 0, behind |-> FALSE])

\* tempImg.onload: the probed source goes to the image; the deferred source
\* set replaces the image's srcset if the image has both.
CopySources(s, i, src) ==
  [s EXCEPT !.dom[i].src = src,
            !.dom[i].srcset = IF @ # NoAttr /\ s.dom[i].dataSrcset # NoAttr
                              THEN s.dom[i].dataSrcset ELSE @]

\* onLoadSuccess(src)
OnLoadSuccess(s, t, src) ==
  LET i  == s.tasks[t].img
      s1 == [s EXCEPT !.tasks[t].loaded = TRUE]
      s2 == RemoveClass(s1, i, loadingClass)
      s3 == RemoveClass(s2, i, placeholderClass)
      s4 == AddClass(s3, i, loadedClass)
  IN [s4 EXCEPT !.dom[i].dataSrc = NoAttr, !.dom[i].dataSrcset = NoAttr,
                !.evLoaded[i] = @ + 1,
                !.dispatched[i] = [type |-> "lazyloaded", bubbles |-> TRUE,
                                   detail |-> [img |-> i, src |-> src]]]

\* The Error loadWithRetry rejects with.
LoadError(attempts) ==
  [message |-> <<"Failed to load image after", attempts, "attempts">>]

\* onLoadError(error, src)
OnLoadError(s, t, src) ==
  LET i  == s.tasks[t].img
      s1 == RemoveClass(s, i, loadingClass)
      s2 == AddClass(s1, i, errorClass)
  IN [s2 EXCEPT !.evError[i] = @ + 1,
                !.dispatched[i] =
                   [type |-> "lazyerror", bubbles |-> TRUE,
                    detail |-> [img |-> i, src |-> src,
                                error |-> LoadError(s.tasks[t].attempts)]]]

\* The throttle timer fired or was cleared: no retry timer waits behind it.
\* (A throttle timer runs 100 ms, a retry timer 1000 ms or more.)
RECURSIVE Released(_)
Released(b) ==
  IF b = EmptyBag THEN EmptyBag
  ELSE LET c == CHOOSE x \in BagToSet(b) : TRUE
           n == CopiesIn(c, b)
       IN Released(b (-) (c :> n)) (+) ([c EXCEPT !.behind = FALSE] :> n)

\* -------------------------------------------------------------- strategies

\* One image of observeImages / collectImages: an element matching the
\* selector that the registry does not hold gets a task and the placeholder
\* class, and (primary strategy) is observed.
Register(s, i, observe) ==
  IF s.dom[i].inDoc /\ s.images[i] = 0
  THEN LET s1 == [s EXCEPT !.tasks = Append(@, NewImageLoader(i)),
                           !.images[i] = Len(s.tasks) + 1,
                           !.observed = IF observe THEN @ \cup {i} ELSE @]
       IN AddClass(s1, i, placeholderClass)
  ELSE s

RECURSIVE RegisterAll(_, _, _)
RegisterAll(s, D, observe) ==
  IF D = {} THEN s
  ELSE LET i == CHOOSE x \in D : \A y \in D : x <= y
       IN RegisterAll(Register(s, i, observe), D \ {i}, observe)

\* IntersectionObserverLazyLoader.observeImages
ObserveImages(s) == RegisterAll(s, Images, TRUE)

\* FallbackLazyLoader.collectImages
CollectImages(s) == RegisterAll(s, Images, FALSE)

\* A visibility test with ten times the margin.
IsVisibleAhead(i, top) ==
  LET imgTop    == DocTop(i)
      imgBottom == imgTop + Page.imgHeight
  IN imgBottom >= top - 10 * Margin
     /\ imgTop <= top + Page.windowHeight + 10 * Margin

\* The visibility test of checkVisibleImages at scroll offset top.
IsVisible(i, top) ==
  LET rectTop   == DocTop(i) - top
      imgTop    == rectTop + top
      imgBottom == imgTop + Page.imgHeight
  IN imgBottom >= top - Margin /\ imgTop <= top + Page.windowHeight + Margin

RECURSIVE CheckEach(_, _, _, _)
CheckEach(s, D, top, g) ==
  IF D = {} THEN s
  ELSE LET i  == CHOOSE x \in D : \A y \in D : x <= y
           t  == s.images[i]
           s1 == IF t # 0 /\ ~s.tasks[t].loaded /\ IsVisible(i, top)
                 THEN Load(s, t, g) ELSE s
       IN CheckEach(s1, D \ {i}, top, g)

\* FallbackLazyLoader.checkVisibleImages
CheckVisibleImages(s, top, g) == CheckEach(s, Images, top, g)

\* refresh() of the strategy of the given kind
Refresh(s, kind, top, g) ==
  IF kind = "io" THEN ObserveImages(s)
  ELSE CheckVisibleImages(CollectImages(s), top, g)

RECURSIVE RefreshTimes(_, _, _, _, _)
RefreshTimes(s, n, kind, top, g) ==
  IF n = 0 THEN s ELSE RefreshTimes(Refresh(s, kind, top, g), n - 1, kind, top, g)

\* The handler of handleIntersection for one entry.
HandleEntry(s, i, isIntersecting, g) ==
  LET t == s.images[i] IN
  IF isIntersecting /\ t # 0 /\ ~s.tasks[t].loaded THEN Load(s, t, g) ELSE s

\* The .then callback of the strategy after load() returned true: the primary
\* strategy unobserves the image, the fallback deletes it from its registry.
\* A callback of a strategy object that is no longer the live one acts on
\* that object's own (cleared) registry and changes nothing here.
AfterSuccess(s, i, g, kind, liveGen) ==
  IF g # liveGen THEN s
  ELSE IF kind = "io" THEN [s EXCEPT !.observed = @ \ {i}]
  ELSE [s EXCEPT !.images[i] = 0]

EmptyRegistry == [i \in Images |-> 0]
Kind == IF supportsIO THEN "io" ELSE "fallback"
\* last: the load() call the last event made, if it was an intersection entry
\* ("load") or an outside caller ("directLoad"): its task and what it returned
\* ("pending": a promise that settles when the probes have).
Op(op, task, ret) == [op |-> op, task |-> task, ret |-> ret]
NoOp == Op("none", 0, "none")

\* ------------------------------------------------------------ navigation
(***************************************************************************)
(* The navigation module (src/unnamed/part_001): the mobile menu, the nav  *)
(* links, the active section and keyboard navigation. Its state is the     *)
(* record nav; a handler is a function from nav to nav.                    *)
(***************************************************************************)

MobileBreakpoint == 768   \* CONFIG.MOBILE_BREAKPOINT
ScrollOffset     == 100   \* CONFIG.SCROLL_OFFSET

\* The page: three nav links in .nav-menu; the first two point at sections of
\* the page, the third at an id no element has.
NumLinks == 3
LinkAt(index) == <<"link0", "link1", "link2">>[index + 1]   \* navLinks[index]
Links == {LinkAt(index) : index \in 0..(NumLinks - 1)}
IndexOf(link) == CHOOSE index \in 0..(NumLinks - 1) : LinkAt(index) = link
Href(link) ==
  IF link = "link0" THEN "#home"
  ELSE IF link = "link1" THEN "#contact" ELSE "#gone"
Sections == {"home", "contact"}
NoSection == "none"
Widths == {767, 768}      \* window.innerWidth on either side of the breakpoint
ScrollYs == {0, 150}      \* window.scrollY on either side of SCROLL_OFFSET
Keys == {"Escape", "ArrowDown", "ArrowRight", "ArrowUp", "ArrowLeft", "Home",
         "End", "Tab"}
\* Where a click lands: the hamburger, a nav link, the nav menu beside its
\* links, the rest of the page.
ClickTargets == {"hamburger", "menu", "page"} \cup Links

\* Boolean.prototype.toString
BoolString(b) == IF b THEN "true" ELSE "false"

\* The section href points at: getElementById(href.substring(1)).
TargetOf(href) ==
  IF href = "#home" THEN "home" ELSE IF href = "#contact" THEN "contact"
  ELSE NoSection

\* updateMenuState with the aria-expanded update left out.
UpdateMenuStateSilent(n) ==
  LET n1 == [n EXCEPT !.menuActive = n.isMenuOpen]
      n2 == IF n.innerWidth < MobileBreakpoint
            THEN [n1 EXCEPT !.bodyOverflow =
                               IF n.isMenuOpen THEN "hidden" ELSE ""]
            ELSE n1
  IN IF n.isMenuOpen THEN [n2 EXCEPT !.focusTimers = @ + 1] ELSE n2

\* updateMenuState: the 'active' class of the menu, aria-expanded of the
\* hamburger, the body's overflow below the breakpoint, and a timer that
\* focuses the first link of an opened menu.
UpdateMenuState(n) ==
  LET n1 == [n EXCEPT !.menuActive = n.isMenuOpen,
                      !.ariaExpanded = BoolString(n.isMenuOpen)]
      n2 == IF n.innerWidth < MobileBreakpoint
            THEN [n1 EXCEPT !.bodyOverflow =
                               IF n.isMenuOpen THEN "hidden" ELSE ""]
            ELSE n1
  IN IF n.isMenuOpen THEN [n2 EXCEPT !.focusTimers = @ + 1] ELSE n2

\* handleMenuToggle
HandleMenuToggle(n) ==
  UpdateMenuState([n EXCEPT !.isMenuOpen = ~n.isMenuOpen])

\* updateActiveLink without the loop that unmarks every link first.
UpdateActiveLinkAdditive(n, k) ==
  [n EXCEPT !.activeClass = @ \cup {k}, !.ariaCurrent = @ \cup {k}]

\* updateActiveLink(link k)
UpdateActiveLink(n, k) ==
  [n EXCEPT !.activeClass = {k}, !.ariaCurrent = {k}]

\* handleLinkClick on link k
HandleLinkClick(n, k) ==
  LET target == TargetOf(Href(k)) IN
  IF target = NoSection THEN n
  ELSE LET n1 == IF n.isMenuOpen
                 THEN UpdateMenuState([n EXCEPT !.isMenuOpen = FALSE])
                 ELSE n
           n2 == [n1 EXCEPT !.scrollRequest = target]
       IN UpdateActiveLink(n2, k)

\* handleEscapeKey without the test of event.key.
HandleAnyKey(n, key) ==
  IF n.isMenuOpen
  THEN [UpdateMenuState([n EXCEPT !.isMenuOpen = FALSE])
          EXCEPT !.focus = "hamburger"]
  ELSE n

\* handleEscapeKey
HandleEscapeKey(n, key) ==
  IF key = "Escape" /\ n.isMenuOpen
  THEN [UpdateMenuState([n EXCEPT !.isMenuOpen = FALSE])
          EXCEPT !.focus = "hamburger"]
  ELSE n

\* handleOutsideClick without the test for a click inside the menu.
HandleOutsideClickLoose(n, target) ==
  IF ~n.isMenuOpen THEN n
  ELSE LET isClickOnHamburger == target = "hamburger"
       IN IF ~isClickOnHamburger
          THEN UpdateMenuState([n EXCEPT !.isMenuOpen = FALSE])
          ELSE n

\* handleOutsideClick for a click that reaches the document
HandleOutsideClick(n, target) ==
  IF ~n.isMenuOpen THEN n
  ELSE LET isClickInsideMenu  == target = "menu" \/ target \in Links
           isClickOnHamburger == target = "hamburger"
       IN IF ~isClickInsideMenu /\ ~isClickOnHamburger
          THEN UpdateMenuState([n EXCEPT !.isMenuOpen = FALSE])
          ELSE n

\* handleResize with > in place of >= in both tests.
HandleResizeAbove(n, w) ==
  LET n0 == [n EXCEPT !.innerWidth = w]
      n1 == IF w > MobileBreakpoint /\ n0.isMenuOpen
            THEN UpdateMenuState([n0 EXCEPT !.isMenuOpen = FALSE])
            ELSE n0
  IN IF w > MobileBreakpoint THEN [n1 EXCEPT !.bodyOverflow = ""] ELSE n1

\* handleResize at the new width w
HandleResize(n, w) ==
  LET n0 == [n EXCEPT !.innerWidth = w]
      n1 == IF w >= MobileBreakpoint /\ n0.isMenuOpen
            THEN UpdateMenuState([n0 EXCEPT !.isMenuOpen = FALSE])
            ELSE n0
  IN IF w >= MobileBreakpoint THEN [n1 EXCEPT !.bodyOverflow = ""] ELSE n1

\* handleScroll at the new offset y: the scrolled class, the debounce timer
HandleNavScroll(n, y) ==
  [n EXCEPT !.scrollY = y, !.scrolled = (y > ScrollOffset),
            !.scrollTimer = TRUE, !.isScrolling = TRUE]

\* handleKeyboardNavigation with ArrowUp and ArrowLeft stepping forward.
KeyTargetIndexForward(key, currentIndex, n) ==
  IF key \in {"ArrowDown", "ArrowRight", "ArrowUp", "ArrowLeft"}
  THEN (currentIndex + 1) % n
  ELSE IF key = "Home" THEN 0
  ELSE IF key = "End" THEN n - 1
  ELSE -1

\* handleKeyboardNavigation(event, currentIndex): the 0-based index of the
\* link to focus, or -1 for a key it does not handle.
KeyTargetIndex(key, currentIndex, n) ==
  IF key \in {"ArrowDown", "ArrowRight"} THEN (currentIndex + 1) % n
  ELSE IF key \in {"ArrowUp", "ArrowLeft"} THEN (currentIndex - 1 + n) % n
  ELSE IF key = "Home" THEN 0
  ELSE IF key = "End" THEN n - 1
  ELSE -1

HandleKeyboardNavigation(n, key, currentIndex) ==
  LET target == KeyTargetIndex(key, currentIndex, NumLinks) IN
  IF target = -1 THEN n ELSE [n EXCEPT !.focus = LinkAt(target)]

\* updateActiveSectionById(sectionId)
UpdateActiveSectionById(n, id) ==
  IF n.activeSection = id THEN n
  ELSE LET n1 == [n EXCEPT !.activeSection = id]
           ks == {k \in Links : TargetOf(Href(k)) = id}
       IN IF ks = {} THEN n1
          ELSE UpdateActiveLink(n1, CHOOSE k \in ks :
                                      \A j \in ks : IndexOf(j) <= IndexOf(k))

\* The page after init(): the menu closed as in the markup (aria-expanded
\* "false" or not set), no link marked, and the section updateActiveSection
\* finds at the initial scroll position, if any.
NavStart(aria, section, w) ==
  UpdateActiveSectionById(
    [isMenuOpen |-> FALSE, menuActive |-> FALSE, ariaExpanded |-> aria,
     bodyOverflow |-> "", innerWidth |-> w, focus |-> "body",
     focusTimers |-> 0, activeSection |-> NoSection, activeClass |-> {},
     ariaCurrent |-> {}, scrollY |-> 0, scrolled |-> FALSE,
     isScrolling |-> FALSE, scrollTimer |-> FALSE,
     scrollRequest |-> NoSection, event |-> <<"init", "">>], section)

\* The page the lazy loader's runs leave alone.
NavIdle == NavStart("false", NoSection, 768)

\* ---------------------------------------------------------- contact form

nameMinLength    == 2      \* CONFIG.validation.nameMinLength
nameMaxLength    == 100    \* CONFIG.validation.nameMaxLength
messageMinLength == 10     \* CONFIG.validation.messageMinLength
messageMaxLength == 1000   \* CONFIG.validation.messageMaxLength
phoneMinLength   == 10     \* the {10,} of CONFIG.validation.phonePattern

\* CONFIG.messages
required        == "This field is required"
invalidEmail    == "Please enter a valid email address"
invalidPhone    == "Please enter a valid phone number (at least 10 digits)"
nameTooShort    == "Name must be at least 2 characters long"
nameTooLong     == "Name must not exceed 100 characters"
messageTooShort == "Message must be at least 10 characters long"
messageTooLong  == "Message must not exceed 1000 characters"
submitSuccess   == "Thank you for your message! We will get back to you soon."
submitError     == "Sorry, there was an error submitting your form. Please try again or contact us directly."
networkError    == "Network error. Please check your connection and try again."
NoError         == "null"  \* a validator's null

\* The four fields, in the order validateForm visits them.
FieldOrder == <<"name", "email", "phone", "message">>
Fields == {FieldOrder[k] : k \in 1..Len(FieldOrder)}

\* The text of a field: len characters that begin and end with a
\* non-whitespace character, with a space on either side when pad holds.
\* shape tells what the patterns look at: "addr" is text of the form
\* local@domain.tld, "dial" is text made of digits, whitespace and -+() only,
\* "text" is neither.
Text(pad, len, shape) == [pad |-> pad, len |-> len, shape |-> shape]
Empty == Text(FALSE, 0, "text")
Blank == Text(TRUE, 0, "text")

\* String.prototype.trim and .length
Trim(v) == [v EXCEPT !.pad = FALSE]
Length(v) == v.len + (IF v.pad THEN 2 ELSE 0)

\* What the user may type into each field.
Typed(f) ==
  IF f = "name"
  THEN {Empty, Blank, Text(FALSE, 1, "text"), Text(TRUE, 2, "text"),
        Text(FALSE, 100, "text"), Text(FALSE, 101, "text")}
  ELSE IF f = "email"
  THEN {Empty, Text(FALSE, 20, "addr"), Text(FALSE, 13, "text")}
  ELSE IF f = "phone"
  THEN {Empty, Text(TRUE, 17, "dial"), Text(FALSE, 3, "dial")}
  ELSE {Empty, Text(FALSE, 9, "text"), Text(FALSE, 10, "text"),
        Text(TRUE, 1000, "text"), Text(FALSE, 1001, "text")}

\* emailPattern.test(value) and phonePattern.test(value)
EmailPatternTest(v) == v.shape = "addr" /\ ~v.pad
PhonePatternTest(v) == v.shape = "dial" /\ Length(v) >= phoneMinLength

\* validateName with the upper limit excluded.
ValidateNameStrict(value) ==
  IF Length(value) = 0 THEN required
  ELSE IF Length(value) < nameMinLength THEN nameTooShort
  ELSE IF Length(value) >= nameMaxLength THEN nameTooLong
  ELSE NoError

\* validateName
ValidateName(value) ==
  IF Length(value) = 0 THEN required
  ELSE IF Length(value) < nameMinLength THEN nameTooShort
  ELSE IF Length(value) > nameMaxLength THEN nameTooLong
  ELSE NoError

\* validateEmail
ValidateEmail(value) ==
  IF Length(value) = 0 THEN required
  ELSE IF ~EmailPatternTest(value) THEN invalidEmail
  ELSE NoError

\* validatePhone
ValidatePhone(value) ==
  IF Length(value) = 0 THEN required
  ELSE IF ~PhonePatternTest(value) THEN invalidPhone
  ELSE NoError

\* validateMessage
ValidateMessage(value) ==
  IF Length(value) = 0 THEN required
  ELSE IF Length(value) < messageMinLength THEN messageTooShort
  ELSE IF Length(value) > messageMaxLength THEN messageTooLong
  ELSE NoError

\* The validator attachEventListeners and validateForm pair with field f.
Validator(f, value) ==
  IF f = "name" THEN ValidateName(value)
  ELSE IF f = "email" THEN ValidateEmail(value)
  ELSE IF f = "phone" THEN ValidatePhone(value)
  ELSE ValidateMessage(value)

\* showFieldError on the field record fl
ShowFieldError(fl, message) ==
  [fl EXCEPT !.classes = (@ \ {"valid"}) \cup {"invalid"},
             !.ariaInvalid = "true",
             !.errorText = message, !.errorVisible = TRUE]

\* showFieldSuccess
ShowFieldSuccess(fl) ==
  [fl EXCEPT !.classes = (@ \ {"invalid"}) \cup {"valid"},
             !.ariaInvalid = "false",
             !.errorText = "", !.errorVisible = FALSE]

\* clearFieldError leaving aria-invalid in place.
ClearFieldErrorKeepAria(fl) ==
  [fl EXCEPT !.classes = @ \ {"invalid", "valid"},
             !.errorText = "", !.errorVisible = FALSE]

\* clearFieldError
ClearFieldError(fl) ==
  [fl EXCEPT !.classes = @ \ {"invalid", "valid"}, !.ariaInvalid = NoAttr,
             !.errorText = "", !.errorVisible = FALSE]

\* validateField: its return value, and the field it leaves.
FieldPasses(fl, f) == Validator(f, Trim(fl.value)) = NoError
ValidateField(fl, f) ==
  LET error == Validator(f, Trim(fl.value)) IN
  IF error # NoError THEN ShowFieldError(fl, error) ELSE ShowFieldSuccess(fl)

\* validateForm stopping at the first field that fails.
ValidateFormShort(fm) ==
  LET firstBad == IF \E k \in 1..Len(FieldOrder) :
                       ~FieldPasses(fm.fields[FieldOrder[k]], FieldOrder[k])
                  THEN CHOOSE k \in 1..Len(FieldOrder) :
                         /\ ~FieldPasses(fm.fields[FieldOrder[k]], FieldOrder[k])
                         /\ \A j \in 1..(k - 1) :
                              FieldPasses(fm.fields[FieldOrder[j]], FieldOrder[j])
                  ELSE Len(FieldOrder)
  IN [fm EXCEPT !.fields =
        [f \in Fields |->
           IF \E k \in 1..firstBad : FieldOrder[k] = f
           THEN ValidateField(fm.fields[f], f) ELSE fm.fields[f]]]

\* validateForm: every field validated; the form it leaves and its result.
ValidateForm(fm) ==
  [fm EXCEPT !.fields = [f \in Fields |-> ValidateField(fm.fields[f], f)]]
\* validateForm's result with some() in place of every().
FormPassesSome(fm) == \E f \in Fields : FieldPasses(fm.fields[f], f)
FormPasses(fm) == \A f \in Fields : FieldPasses(fm.fields[f], f)

\* showFormStatus(message, type): the text, className and role of the status
\* element, and one more timer that will hide it.
ShowFormStatus(fm, message, type) ==
  [fm EXCEPT !.statusText = message,
             !.statusClass = {"form-status", "visible", type},
             !.role = IF type = "error" THEN "alert" ELSE "status",
             !.hideTimers = @ + 1]

\* hideFormStatus
HideFormStatus(fm) ==
  [fm EXCEPT !.statusText = "", !.statusClass = {"form-status"},
             !.role = NoAttr]

\* clearForm: form.reset() gives every field its default (empty) value.
ClearForm(fm) ==
  [fm EXCEPT !.fields =
     [f \in Fields |-> ClearFieldError([fm.fields[f] EXCEPT !.value = Empty])]]

\* setFormDisabled leaving the fields alone.
SetButtonDisabled(fm, disabled) ==
  [fm EXCEPT !.buttonDisabled = disabled,
             !.buttonText = IF disabled THEN "Sending..." ELSE "Send Message"]

\* setFormDisabled(disabled)
SetFormDisabled(fm, disabled) ==
  [fm EXCEPT !.buttonDisabled = disabled,
             !.buttonText = IF disabled THEN "Sending..." ELSE "Send Message",
             !.fields = [f \in Fields |->
                           [fm.fields[f] EXCEPT !.disabled = disabled]]]

\* collectFormData (without the timestamp)
CollectFormData(fm) == [f \in Fields |-> Trim(fm.fields[f].value)]

\* handleFormSubmit up to its await: with an invalid field the error status
\* and nothing else, otherwise the form disabled and the request sent.
HandleFormSubmit(fm) ==
  LET fm1 == ValidateForm(HideFormStatus(fm)) IN
  IF ~FormPasses(fm)
  THEN ShowFormStatus(fm1, submitError, "error")
  ELSE [SetFormDisabled(fm1, TRUE)
          EXCEPT !.requests = Append(@, CollectFormData(fm1))]

\* Responses of the server: response.ok, not ok, or fetch rejects.
Responses == {"ok", "notok", "throws"}

\* handleFormSubmit leaving the status as it was when the response is not ok.
SubmitSettlesQuiet(fm, response) ==
  LET fm1 == [fm EXCEPT !.requests = Tail(@)]
      fm2 == IF response = "ok"
             THEN ClearForm(ShowFormStatus(fm1, submitSuccess, "success"))
             ELSE IF response = "notok" THEN fm1
             ELSE ShowFormStatus(fm1, networkError, "error")
  IN SetFormDisabled(fm2, FALSE)

\* handleFormSubmit after its await, for the response of the oldest request.
SubmitSettles(fm, response) ==
  LET fm1 == [fm EXCEPT !.requests = Tail(@)]
      fm2 == IF response = "ok"
             THEN ClearForm(ShowFormStatus(fm1, submitSuccess, "success"))
             ELSE IF response = "notok"
             THEN ShowFormStatus(fm1, submitError, "error")
             ELSE ShowFormStatus(fm1, networkError, "error")
  IN SetFormDisabled(fm2, FALSE)

\* The form of the markup after init(): empty enabled fields without
\* validation state, the status element empty with role 'status'.
FormStart ==
  [fields |-> [f \in Fields |->
                 [value |-> Empty, classes |-> {}, ariaInvalid |-> NoAttr,
                  errorText |-> "", errorVisible |-> FALSE,
                  disabled |-> FALSE]],
   buttonDisabled |-> FALSE, buttonText |-> "Send Message",
   statusText |-> "", statusClass |-> {"form-status"}, role |-> "status",
   hideTimers |-> 0, requests |-> <<>>]

\* ------------------------------------------------------------------- Init

\* The lazy loader before initializeLazyLoading has run.
LoaderInit ==
  /\ supportsIO \in BOOLEAN
  /\ hostRejects \in {b \in BOOLEAN : b => supportsIO}
  /\ lazyLoadingManager = "unset"
  /\ initRet = "none"
  /\ mgrLoader = "none"
  /\ gen = 0
  /\ initialized = FALSE
  /\ observerAlive = FALSE
  /\ observed = {}
  /\ images = EmptyRegistry
  /\ tasks = << >>
  /\ chains = EmptyBag
  /\ \E c1 \in SrcConfigs(1), c2 \in SrcConfigs(2), present \in BOOLEAN :
       dom = [i \in Images |->
                LET c == IF i = 1 THEN c1 ELSE c2 IN
                [inDoc |-> (i = 1 \/ present), dataSrc |-> c.dataSrc,
                 src |-> c.src, dataSrcset |-> c.dataSrcset,
                 srcset |-> c.srcset, classes |-> {}]]
  /\ throttleTimeout = FALSE
  /\ timers = 0
  /\ scrollTop = 0
  /\ domObservers = 0
  /\ probes = [i \in Images |-> 0]
  /\ outcomes = [i \in Images |-> << >>]
  /\ loads = [i \in Images |-> 0]
  /\ delays = [i \in Images |-> << >>]
  /\ evLoaded = [i \in Images |-> 0]
  /\ evError = [i \in Images |-> 0]
  /\ dispatched = [i \in Images |-> [type |-> "none"]]
  /\ last = NoOp

Init == LoaderInit /\ nav = NavIdle /\ form = FormStart

\* ---------------------------------------------------------------- actions

\* init() with no try/catch around the strategy's initialization.
InitUncaught(threw) == IF threw THEN "throws" ELSE "this"

\* How LazyLoadingManager.init() ends: the catch block logs and returns null.
InitCaught(threw) == IF threw THEN "null" ELSE "this"

\* LazyLoadingManager.init(): a new strategy object by host capability, its
\* init(), then attachDOMObserver(). initializeLazyLoading constructs the
\* page's one manager, calls its init() once, when the DOM is ready, and
\* stores what init() returns in window.lazyLoadingManager. If the
\* IntersectionObserver constructor throws, the strategy's init() rethrows
\* with this.loader assigned, nothing registered and no MutationObserver.
ManagerInit ==
  /\ mgrLoader = "none"
  /\ gen = 0
  /\ LET fresh == [S EXCEPT !.images = EmptyRegistry, !.observed = {}]
         threw == supportsIO /\ hostRejects
         s2 == IF threw THEN fresh
               ELSE IF supportsIO THEN ObserveImages(fresh)
               ELSE CheckVisibleImages(CollectImages(fresh), scrollTop, gen + 1)
     IN /\ Commit(s2)
        /\ initialized' = ~threw
        /\ observerAlive' = (supportsIO /\ ~threw)
        /\ domObservers' = IF threw THEN domObservers ELSE domObservers + 1
        /\ initRet' = InitCaught(threw)
        /\ lazyLoadingManager' =
             CASE initRet' = "this" -> "manager"
               [] initRet' = "null" -> "null"
               [] OTHER -> lazyLoadingManager
  /\ mgrLoader' = Kind
  /\ gen' = gen + 1
  /\ throttleTimeout' = FALSE
  /\ last' = NoOp
  /\ UNCHANGED <<host, nav, form, timers, scrollTop>>

\* init() of the live strategy called again, by a caller that reaches it
\* through the page's manager: the initialized guard returns.
StrategyInit ==
  /\ lazyLoadingManager = "manager"
  /\ mgrLoader # "none"
  /\ LET s2 == IF initialized THEN S
               ELSE IF mgrLoader = "io" THEN ObserveImages(S)
               ELSE CheckVisibleImages(CollectImages(S), scrollTop, gen)
     IN Commit(s2)
  /\ initialized' = TRUE
  /\ last' = NoOp
  /\ UNCHANGED <<host, boot, nav, form, mgrLoader, gen, observerAlive, throttleTimeout,
                 timers, scrollTop, domObservers>>

\* LazyLoadingManager.refresh(), called on the page's manager
ManagerRefresh ==
  /\ lazyLoadingManager = "manager"
  /\ LET s2 == IF mgrLoader # "none" THEN Refresh(S, mgrLoader, scrollTop, gen)
               ELSE S
     IN Commit(s2)
  /\ last' = NoOp
  /\ UNCHANGED <<host, boot, nav, form, mgrLoader, gen, initialized, observerAlive,
                 throttleTimeout, timers, scrollTop, domObservers>>

\* destroy() keeps no entry: this.images.clear(), and the disconnected
\* observer observes nothing.
KeepRegistry(s) == s

ClearRegistry(s) == [s EXCEPT !.images = EmptyRegistry, !.observed = {}]

\* destroy() cancelling the load() calls in flight.
CancelledAtDestroy(b) == EmptyBag

\* The load() calls in flight when destroy() returns: destroy() touches no
\* probe and no retry timer; the throttle timer it clears holds none back.
PendingAfterDestroy(b) == Released(b)

\* LazyLoadingManager.destroy(): the strategy's destroy(), then loader = null.
\* The fallback strategy clears its pending throttle timer and leaves
\* this.throttleTimeout as it is; its scroll and resize listeners stay.
ManagerDestroy ==
  /\ lazyLoadingManager = "manager"
  /\ mgrLoader # "none"
  /\ Commit([ClearRegistry(S) EXCEPT !.chains = PendingAfterDestroy(@)])
  /\ mgrLoader' = "none"
  /\ initialized' = FALSE
  /\ observerAlive' = FALSE
  /\ timers' = IF mgrLoader = "fallback" /\ throttleTimeout THEN 0 ELSE timers
  /\ last' = NoOp
  /\ UNCHANGED <<host, boot, nav, form, gen, throttleTimeout, scrollTop, domObservers>>

\* Nodes a script adds to the document: the eligible image i itself, an
\* element with the eligible image i inside, an element with no eligible
\* image, a text node.
ImgNode(i)  == [nodeType |-> 1, matches |-> TRUE,  inside |-> {}, img |-> i]
WrapNode(i) == [nodeType |-> 1, matches |-> FALSE, inside |-> {i}, img |-> 0]
PlainNode   == [nodeType |-> 1, matches |-> FALSE, inside |-> {}, img |-> 0]
TextNode    == [nodeType |-> 3, matches |-> FALSE, inside |-> {}, img |-> 0]

\* The eligible images that come with the nodes of a batch.
ImagesOf(batch) ==
  {n.img : n \in {m \in batch : m.matches}} \cup UNION {n.inside : n \in batch}

\* The batches of added nodes of one mutation callback, besides a single
\* eligible image.
OtherBatches ==
  {{TextNode, PlainNode}} \cup {{TextNode, WrapNode(i)} : i \in Images}

\* A callback that looks only at the added nodes themselves.
HasNewImagesTopLevel(batch) ==
  \E n \in batch : n.nodeType = 1 /\ n.matches

\* hasNewImages of the MutationObserver callback: an added element matches
\* the selector, or querySelectorAll finds a match inside it.
HasNewImages(batch) ==
  \E n \in batch : n.nodeType = 1 /\ (n.matches \/ n.inside # {})

\* The nodes of a batch are added to the document; every MutationObserver
\* attached so far sees the batch and, if it has new images, refreshes the
\* manager's loader, if any.
InsertNodes(batch) ==
  /\ \A i \in ImagesOf(batch) : ~dom[i].inDoc
  /\ LET s1 == [S EXCEPT !.dom = [i \in Images |->
                     IF i \in ImagesOf(batch)
                     THEN [dom[i] EXCEPT !.inDoc = TRUE] ELSE dom[i]]]
         s2 == IF HasNewImages(batch) /\ mgrLoader # "none"
               THEN RefreshTimes(s1, domObservers, mgrLoader, scrollTop, gen)
               ELSE s1
     IN Commit(s2)
  /\ last' = NoOp
  /\ UNCHANGED <<host, boot, nav, form, mgrLoader, gen, initialized, observerAlive,
                 throttleTimeout, timers, scrollTop, domObservers>>

\* An eligible image is inserted into the document; every MutationObserver
\* attached so far sees it and refreshes the manager's loader, if any.
InsertImage(i) ==
  /\ ~dom[i].inDoc
  /\ LET s1 == [S EXCEPT !.dom[i].inDoc = TRUE]
         s2 == IF HasNewImages({ImgNode(i)}) /\ mgrLoader # "none"
               THEN RefreshTimes(s1, domObservers, mgrLoader, scrollTop, gen)
               ELSE s1
     IN Commit(s2)
  /\ last' = NoOp
  /\ UNCHANGED <<host, boot, nav, form, mgrLoader, gen, initialized, observerAlive,
                 throttleTimeout, timers, scrollTop, domObservers>>

\* The observer delivers an entry for an observed image to handleIntersection.
IntersectionSignal(i, isIntersecting) ==
  /\ mgrLoader = "io"
  /\ observerAlive
  /\ i \in observed
  /\ \E s2 \in {HandleEntry(S, i, isIntersecting, gen)} :
        /\ Commit(s2)
        /\ last' = IF s2.ret = "none" THEN NoOp
                   ELSE Op("load", images[i], s2.ret)
  /\ UNCHANGED <<host, boot, nav, form, mgrLoader, gen, initialized, observerAlive,
                 throttleTimeout, timers, scrollTop, domObservers>>

\* handleScroll setting a timer for every event.
HandleScrollUnthrottled(pending, n) ==
  [throttleTimeout |-> TRUE, timers |-> n + 1]

\* handleScroll: nothing while this.throttleTimeout is set, otherwise a timer
\* for the check (n timers are pending).
HandleScroll(pending, n) ==
  IF pending THEN [throttleTimeout |-> pending, timers |-> n]
  ELSE [throttleTimeout |-> TRUE, timers |-> n + 1]

\* The fallback strategy has attached its scroll and resize listeners; no code
\* removes them.
Listening == gen > 0 /\ ~supportsIO

\* A scroll to offset p, or (p = scrollTop) a resize, reaches handleScroll.
ScrollOrResize(p) ==
  /\ Listening
  /\ scrollTop' = p
  /\ \E h \in {HandleScroll(throttleTimeout, timers)} :
        /\ throttleTimeout' = h.throttleTimeout
        /\ timers' = h.timers
  /\ last' = NoOp
  /\ UNCHANGED <<host, boot, nav, form, mgrLoader, gen, initialized, observerAlive,
                 observed, images, tasks, chains, dom, domObservers, probes,
                 outcomes, loads, delays, evLoaded, evError, dispatched>>

\* A throttle timer fires: checkVisibleImages over the strategy's registry,
\* then throttleTimeout = null.
ThrottledCheck ==
  /\ timers > 0
  /\ LET s1 == [S EXCEPT !.chains = Released(@)]
         s2 == CheckVisibleImages(s1, scrollTop, gen)
     IN Commit(s2)
  /\ throttleTimeout' = FALSE
  /\ timers' = timers - 1
  /\ last' = NoOp
  /\ UNCHANGED <<host, boot, nav, form, mgrLoader, gen, initialized, observerAlive,
                 scrollTop, domObservers>>

\* tempImg.onload of the probe of load() call c: the source is copied to the
\* image, the promise resolves, load() runs onLoadSuccess and returns true,
\* and the strategy's .then callback runs.
ProbeLoaded(c) ==
  /\ c.st = "probe"
  /\ LET t  == c.task
         i  == tasks[t].img
         s0 == [S EXCEPT !.chains = @ (-) SetToBag({c}),
                         !.outcomes[i] = Append(@, "ok")]
         s1 == CopySources(s0, i, c.src)
         s2 == OnLoadSuccess(s1, t, c.src)
         s3 == IF c.gen = 0 THEN s2 ELSE AfterSuccess(s2, i, c.gen, Kind, gen)
     IN /\ Commit(s3)
        /\ last' = NoOp
  /\ UNCHANGED <<host, boot, nav, form, mgrLoader, gen, initialized, observerAlive,
                 throttleTimeout, timers, scrollTop, domObservers>>

\* A retry delay that does not grow with the attempt number.
RetryDelayConstant(attempts) == RetryDelay

\* The delay of the retry scheduled by tempImg.onerror.
RetryDelayFor(attempts) == RetryDelay * attempts

\* tempImg.onerror of the probe of load() call c: under the budget a retry
\* timer is set, otherwise the promise rejects, load() runs onLoadError and
\* returns false.
ProbeFailed(c) ==
  /\ c.st = "probe"
  /\ LET t  == c.task
         i  == tasks[t].img
         s1 == [S EXCEPT !.chains = @ (-) SetToBag({c}),
                         !.outcomes[i] = Append(@, "fail")]
         k  == Len(s1.outcomes[i])
         d  == RetryDelayFor(tasks[t].attempts)
     IN IF tasks[t].attempts < RetryAttempts
        THEN /\ Commit([s1 EXCEPT
                         !.chains = @ (+) SetToBag({[c EXCEPT !.st = "timer",
                                               !.delay = d,
                                               !.behind = (timers > 0)]}),
                         !.delays[i] = Append(@, [k |-> k, delay |-> d])])
             /\ last' = NoOp
        ELSE /\ Commit(OnLoadError(s1, t, c.src))
             /\ last' = NoOp
  /\ UNCHANGED <<host, boot, nav, form, mgrLoader, gen, initialized, observerAlive,
                 throttleTimeout, timers, scrollTop, domObservers>>

\* The retry timer of load() call c fires: attemptLoad again. Timers fire in
\* the order of their deadlines: a retry (1000 ms or more) set while the
\* throttle timer (100 ms) was pending fires after it. The order of two retry
\* timers, and of a timer and a probe's result, is left open.
RetryTimer(c) ==
  /\ c.st = "timer"
  /\ ~c.behind
  /\ LET s1 == [S EXCEPT !.chains = @ (-) SetToBag({c})]
         s2 == AttemptLoad(s1, c)
     IN /\ Commit(s2)
        /\ last' = NoOp
  /\ UNCHANGED <<host, boot, nav, form, mgrLoader, gen, initialized, observerAlive,
                 throttleTimeout, timers, scrollTop, domObservers>>

\* load() called again on a task that has loaded. The strategies test
\* loader.loaded before they call load(), so only a caller outside them makes
\* this call (ImageLoader is exported); it attaches no callback to the result.
LoadAgain(t) ==
  /\ t \in 1..Len(tasks)
  /\ tasks[t].loaded
  /\ \E s2 \in {Load(S, t, 0)} :
        /\ Commit(s2)
        /\ last' = Op("directLoad", t, s2.ret)
  /\ UNCHANGED <<host, boot, nav, form, mgrLoader, gen, initialized, observerAlive,
                 throttleTimeout, timers, scrollTop, domObservers>>

Next ==
  \/ ManagerInit
  \/ StrategyInit
  \/ ManagerRefresh
  \/ ManagerDestroy
  \/ \E i \in Images : InsertImage(i)
  \/ \E batch \in OtherBatches : InsertNodes(batch)
  \/ \E i \in Images, b \in BOOLEAN : IntersectionSignal(i, b)
  \/ \E p \in ScrollPositions : ScrollOrResize(p)
  \/ ThrottledCheck
  \/ \E c \in BagToSet(chains) : ProbeLoaded(c)
  \/ \E c \in BagToSet(chains) : ProbeFailed(c)
  \/ \E c \in BagToSet(chains) : RetryTimer(c)

Spec == Init /\ [][Next]_vars

\* The page's events together with load() called again on loaded tasks.
NextApi ==
  \/ Next
  \/ \E t \in 1..MaxTasks : LoadAgain(t)

\* The hosts and pages of those runs: every page on a host with
\* IntersectionObserver (whose registry keeps loaded tasks), and on a host
\* without it the pages whose image 1 has no source.
InitApi == Init /\ (supportsIO \/ ResolveSrc(dom[1]) = NoAttr)

SpecApi == InitApi /\ [][NextApi]_vars

\* A host without IntersectionObserver showing the page whose image 1 has no
\* source: the fallback strategy runs and image 2 is the one it can load.
InitFallback == Init /\ ~supportsIO /\ ResolveSrc(dom[1]) = NoAttr

\* The events of that host (no observer delivers entries).
NextFallback ==
  \/ ManagerInit
  \/ StrategyInit
  \/ ManagerRefresh
  \/ ManagerDestroy
  \/ \E i \in Images : InsertImage(i)
  \/ \E batch \in OtherBatches : InsertNodes(batch)
  \/ \E p \in ScrollPositions : ScrollOrResize(p)
  \/ ThrottledCheck
  \/ \E c \in BagToSet(chains) : ProbeLoaded(c)
  \/ \E c \in BagToSet(chains) : ProbeFailed(c)
  \/ \E c \in BagToSet(chains) : RetryTimer(c)

\* A timer that has been set fires: the browser runs the callback of every
\* throttle timer that is not cleared.
SpecThrottle == InitFallback /\ [][NextFallback]_vars /\ WF_vars(ThrottledCheck)

\* ------------------------------------------------- navigation: the events

\* The handlers' result n becomes the next state (if the run stays within the
\* bound); the lazy loader is left alone.
NavCommit(n) ==
  /\ n.focusTimers <= MaxFocusTimers
  /\ nav' = n
  /\ UNCHANGED <<loaderVars, form>>

\* The state n a handler leaves, labelled with the event that ran it.
After(type, what, n) == [n EXCEPT !.event = <<type, what>>]

\* A click: on the hamburger handleMenuToggle runs and stops the event; on a
\* link handleLinkClick runs and the event bubbles to the document's
\* handleOutsideClick; elsewhere only the latter runs.
ClickOn(target) ==
  /\ target \in ClickTargets
  /\ NavCommit(After("click", target,
       IF target = "hamburger" THEN HandleMenuToggle(nav)
       ELSE IF target \in Links
       THEN HandleOutsideClick(HandleLinkClick(nav, target), target)
       ELSE HandleOutsideClick(nav, target)))

\* A keydown on the focused element: a focused link runs
\* handleKeyboardNavigation, then the document runs handleEscapeKey.
KeyDown(key) ==
  /\ key \in Keys
  /\ NavCommit(After("keydown", key,
       IF nav.focus \in Links
       THEN HandleEscapeKey(
              HandleKeyboardNavigation(nav, key, IndexOf(nav.focus)), key)
       ELSE HandleEscapeKey(nav, key)))

\* The window is resized to width w.
Resize(w) ==
  /\ w \in Widths
  /\ NavCommit(After("resize", "", HandleResize(nav, w)))

\* The page scrolls to offset y.
NavScroll(y) ==
  /\ y \in ScrollYs
  /\ NavCommit(After("scroll", "", HandleNavScroll(nav, y)))

\* The debounce timer of handleScroll fires.
ScrollTimerFires ==
  /\ nav.scrollTimer
  /\ NavCommit(After("timeout", "scroll",
       [nav EXCEPT !.scrollTimer = FALSE, !.isScrolling = FALSE]))

\* A timer set by updateMenuState fires: firstLink.focus().
FocusTimerFires ==
  /\ nav.focusTimers > 0
  /\ NavCommit(After("timeout", "focus",
       [nav EXCEPT !.focusTimers = @ - 1, !.focus = LinkAt(0)]))

\* The section observer reports section id as intersecting.
SectionIntersects(id) ==
  /\ id \in Sections
  /\ NavCommit(After("intersect", id, UpdateActiveSectionById(nav, id)))

\* The user moves the focus (Tab, a pointer) to element e.
FocusMoves(e) ==
  /\ nav.focus # e
  /\ NavCommit(After("focus", e, [nav EXCEPT !.focus = e]))

\* window.Navigation.openMenu()
OpenMenu ==
  \E n \in {IF ~nav.isMenuOpen
             THEN UpdateMenuState([nav EXCEPT !.isMenuOpen = TRUE])
             ELSE nav} : NavCommit(After("call", "openMenu", n))

\* window.Navigation.closeMenu()
CloseMenu ==
  \E n \in {IF nav.isMenuOpen
             THEN UpdateMenuState([nav EXCEPT !.isMenuOpen = FALSE])
             ELSE nav} : NavCommit(After("call", "closeMenu", n))

\* The navigation module on a page whose lazy loader has not started.
InitNav ==
  /\ LoaderInit
  /\ supportsIO /\ ~hostRejects
  /\ \A i \in Images : dom[i].inDoc /\ ResolveSrc(dom[i]) # NoAttr
  /\ nav \in {NavStart(aria, section, w) :
                aria \in {"false", NoAttr},
                section \in Sections \cup {NoSection}, w \in Widths}
  /\ form = FormStart

NextNav ==
  \/ \E target \in ClickTargets : ClickOn(target)
  \/ \E key \in Keys : KeyDown(key)
  \/ \E w \in Widths : Resize(w)
  \/ \E y \in ScrollYs : NavScroll(y)
  \/ ScrollTimerFires
  \/ FocusTimerFires
  \/ \E id \in Sections : SectionIntersects(id)
  \/ \E e \in {"body", "hamburger"} \cup Links : FocusMoves(e)
  \/ OpenMenu
  \/ CloseMenu

SpecNav == InitNav /\ [][NextNav]_vars

\* ----------------------------------------------- contact form: the events

FormCommit(fm) ==
  /\ fm.hideTimers <= MaxHideTimers
  /\ form' = fm
  /\ UNCHANGED <<loaderVars, nav>>

\* The user submits the form (the button, or Enter in a field): only an
\* enabled form can be submitted.
Submit ==
  /\ ~form.buttonDisabled
  /\ FormCommit(HandleFormSubmit(form))

\* fetch settles: handleFormSubmit resumes after its await.
Response(r) ==
  /\ Len(form.requests) > 0
  /\ FormCommit(SubmitSettles(form, r))

\* Field f loses the focus.
Blur(f) ==
  /\ ~form.fields[f].disabled
  /\ FormCommit([form EXCEPT !.fields[f] = ValidateField(@, f)])

\* The user changes the text of field f to v.
Input(f, v) ==
  /\ ~form.fields[f].disabled
  /\ v # form.fields[f].value
  /\ FormCommit([form EXCEPT
                   !.fields[f] = ClearFieldError([@ EXCEPT !.value = v])])

\* A timer set by showFormStatus fires.
HideTimerFires ==
  /\ form.hideTimers > 0
  /\ FormCommit(HideFormStatus([form EXCEPT !.hideTimers = @ - 1]))

\* The contact form on a page whose other modules stay idle.
InitForm ==
  /\ LoaderInit
  /\ supportsIO /\ ~hostRejects
  /\ \A i \in Images : dom[i].inDoc /\ ResolveSrc(dom[i]) # NoAttr
  /\ nav = NavIdle
  /\ form = FormStart

NextForm ==
  \/ Submit
  \/ \E r \in Responses : Response(r)
  \/ \E f \in Fields : Blur(f)
  \/ \E f \in Fields : \E v \in Typed(f) : Input(f, v)
  \/ HideTimerFires

SpecForm == InitForm /\ [][NextForm]_vars

\* The same, with every request settling and every timer firing in the end.
SpecFormFair ==
  /\ SpecForm
  /\ WF_vars(\E r \in Responses : Response(r))
  /\ WF_vars(HideTimerFires)

\* ------------------------------------------------------------- properties

\* load() calls in flight (a probe or a pending retry timer) for image i.
InFlight(i) ==
  LET cs == {c \in BagToSet(chains) : tasks[c.task].img = i}
      n[D \in SUBSET cs] ==
        IF D = {} THEN 0
        ELSE LET c == CHOOSE x \in D : TRUE
             IN CopiesIn(c, chains) + n[D \ {c}]
  IN n[cs]

TasksFor(i) == {t \in 1..Len(tasks) : tasks[t].img = i}
AllFailed(i) == \A j \in 1..Len(outcomes[i]) : outcomes[i][j] = "fail"

\* The registered task of image i, triggered once, has used up its budget and
\* rejected.
FailedTerminally(i) ==
  /\ images[i] # 0
  /\ loads[i] = 1
  /\ tasks[images[i]].attempts >= RetryAttempts
  /\ ~tasks[images[i]].loaded
  /\ evError[i] > 0
  /\ InFlight(i) = 0

\* The step delivers a visibility signal for image i: an intersecting entry
\* for it, or the fallback strategy's throttled check.
SignalStep(i) == IntersectionSignal(i, TRUE) \/ ThrottledCheck

\* C1: an image whose every probe failed, with no probe or retry pending, has
\* had exactly retryAttempts probes and has failed terminally, whatever
\* visibility signals arrived before or after the failure.
C1_ExactlyBudgetProbes ==
  \A i \in Images :
    (probes[i] > 0 /\ AllFailed(i) /\ InFlight(i) = 0) =>
      (probes[i] = RetryAttempts /\ evError[i] > 0)

\* C2: once the registered task of an image has failed terminally, no
\* visibility signal starts another probe for the image.
C2_NoProbeAfterTerminalFailure ==
  [][\A i \in Images :
       (FailedTerminally(i) /\ SignalStep(i)) => probes'[i] = probes[i]]_vars

\* C3: at most one probe or pending retry timer exists for an image.
C3_ProbesSequential == \A i \in Images : InFlight(i) <= 1

\* C4: an image carries at most one of the four marker classes.
C4_MarkersExclusive ==
  \A i \in Images : Cardinality(dom[i].classes \cap MarkerClasses) <= 1

\* The state of image i that a load() could change (a new probe or retry shows
\* in probes and delays).
ImageState(i) ==
  <<dom[i], probes[i], loads[i], outcomes[i], delays[i], evLoaded[i],
    evError[i], images[i], tasks[images[i]]>>

ImageStateNext(i) ==
  <<dom'[i], probes'[i], loads'[i], outcomes'[i], delays'[i], evLoaded'[i],
    evError'[i], images'[i], tasks'[images[i]]>>

\* C5: a load() call on a task whose loaded flag is set returns true and
\* changes nothing: no probe, class, attribute, attempt counter or event; and
\* a visibility signal for an image whose registered task is loaded changes
\* nothing of that image either.
C5_LoadedIsTerminal ==
  [][/\ (/\ last'.op \in {"load", "directLoad"}
          /\ tasks[last'.task].loaded) =>
            /\ last'.ret = "true"
            /\ UNCHANGED <<tasks, chains, dom, probes, loads, outcomes, delays,
                           evLoaded, evError, images, observed>>
     /\ \A i \in Images :
          (images[i] # 0 /\ tasks[images[i]].loaded /\ SignalStep(i)) =>
             ImageStateNext(i) = ImageState(i)]_vars

\* C5 witness: load() has been called on a loaded task and has returned true.
C5_Witness ==
  /\ last.op = "directLoad"
  /\ last.ret = "true"
  /\ tasks[last.task].loaded
  /\ evLoaded[tasks[last.task].img] = 1

\* C6: after load() on an image with neither data-src nor src: no probe, the
\* attempt counter 0, the error class applied and exactly one lazyerror.
C6_MissingSourceFails ==
  \A i \in Images :
    (/\ last.op = "load"
     /\ tasks[last.task].img = i
     /\ dom[i].dataSrc = NoAttr /\ dom[i].src = NoAttr) =>
      /\ last.ret = "false"
      /\ probes[i] = 0
      /\ tasks[last.task].attempts = 0
      /\ errorClass \in dom[i].classes
      /\ evError[i] = 1

\* C7: an image triggered once whose probes went fail, fail, ok is loaded, with
\* one lazyloaded event, no lazyerror event, and retries scheduled after
\* 1000 ms and then 2000 ms.
C7_RetryThenSuccess ==
  \A i \in Images :
    (loads[i] = 1 /\ outcomes[i] = <<"fail", "fail", "ok">>) =>
      /\ loadedClass \in dom[i].classes
      /\ loadingClass \notin dom[i].classes
      /\ \A t \in TasksFor(i) : tasks[t].attempts > 0 => tasks[t].loaded
      /\ evLoaded[i] = 1
      /\ evError[i] = 0
      /\ delays[i] = <<[k |-> 1, delay |-> 1000], [k |-> 2, delay |-> 2000]>>

C7_Witness ==
  \E i \in Images : loads[i] = 1 /\ outcomes[i] = <<"fail", "fail", "ok">>

\* C8: the retry scheduled after the k-th failed probe of an image is delayed
\* by retryDelay * k.
C8_LinearBackoff ==
  \A i \in Images : \A j \in 1..Len(delays[i]) :
    delays[i][j].delay = RetryDelay * delays[i][j].k

\* C9: refresh() creates no task for an image that is registered or has
\* loaded, and for an image that has loaded it changes no class and produces
\* no probe and no notification.
C9_RefreshLeavesResolvedAlone ==
  [][ManagerRefresh =>
       \A i \in Images :
         /\ (images[i] # 0 \/ evLoaded[i] > 0) => TasksFor(i)' = TasksFor(i)
         /\ evLoaded[i] > 0 =>
              /\ dom'[i].classes = dom[i].classes
              /\ probes'[i] = probes[i]
              /\ evLoaded'[i] = evLoaded[i]
              /\ evError'[i] = evError[i]]_vars

\* C10: over the init and refresh calls of a run no image ever gets a second
\* task.
C10_RegisteredOnce == \A i \in Images : Cardinality(TasksFor(i)) <= 1

\* The manager's destroy() has returned (init() runs once, before it).
Destroyed == mgrLoader = "none" /\ gen > 0

RejectedTask(i) ==
  /\ tasks[images[i]].attempts >= RetryAttempts
  /\ ~tasks[images[i]].loaded
  /\ evError[i] > 0
  /\ InFlight(i) = 0

\* C12: the registry holds no image whose task has loaded, and in the primary
\* strategy none whose task has failed terminally.
C12_ResolvedEntriesRemoved ==
  \A i \in Images :
    images[i] # 0 =>
      /\ ~tasks[images[i]].loaded
      /\ mgrLoader = "io" => ~RejectedTask(i)

\* C13: a successful probe of an image with a deferred source set leaves the
\* image with the resolved src, with that source set as its srcset, and
\* without data-src and data-srcset.
C13_DeferredSrcsetCopied ==
  [][\A i \in Images :
       (evLoaded'[i] > evLoaded[i] /\ dom[i].dataSrcset # NoAttr) =>
          /\ dom'[i].src = ResolveSrc(dom[i])
          /\ dom'[i].srcset = dom[i].dataSrcset
          /\ dom'[i].dataSrc = NoAttr
          /\ dom'[i].dataSrcset = NoAttr]_vars

\* The vertical extent of image i overlaps the viewport at the current scroll
\* offset, extended by 50 px above and below.
WithinMargin(i) ==
  /\ DocTop(i) + Page.imgHeight >= scrollTop - 50
  /\ DocTop(i) <= scrollTop + Page.windowHeight + 50

OutOfBudget == SumOver(probes, Images) >= MaxProbes

\* C15: in the fallback strategy at most one throttled check is pending, and
\* one is pending exactly while the live strategy's throttleTimeout is set; a
\* scroll or resize event arriving while a check is pending sets no timer;
\* and a check pending while the strategy is live (every scroll or resize
\* event leaves one pending) is followed by the check, unless destroy() clears
\* it first.
C15_Throttled ==
  /\ [](/\ timers <= 1
        /\ mgrLoader = "fallback" => (throttleTimeout <=> timers = 1))
  /\ [][\A p \in ScrollPositions :
          ScrollOrResize(p) =>
            /\ timers > 0 => timers' = timers
            /\ mgrLoader = "fallback" => timers' = 1]_vars
  /\ (mgrLoader = "fallback" /\ timers = 1)
        ~> ((timers = 0 /\ ~throttleTimeout) \/ Destroyed \/ OutOfBudget)

\* C15 witness: the live strategy has received a scroll to offset 200, where
\* the registered image 2 is within the margin; its check is pending and has
\* not run (no load() call for image 2 yet).
C15_Witness ==
  /\ mgrLoader = "fallback"
  /\ timers = 1 /\ throttleTimeout
  /\ scrollTop = 200
  /\ images[2] # 0 /\ loads[2] = 0

\* C16: init() does not throw; if the strategy's initialization threw,
\* init() returned null and window.lazyLoadingManager is null; otherwise it
\* returned the manager.
C16_InitNeverThrows ==
  /\ initRet # "throws"
  /\ initRet # "none" =>
       IF supportsIO /\ hostRejects
       THEN initRet = "null" /\ lazyLoadingManager = "null"
       ELSE initRet = "this" /\ lazyLoadingManager = "manager"

\* C16 witness: the IntersectionObserver constructor has rejected its options
\* during init(); init() has returned null and nothing is registered.
C16_Witness ==
  /\ hostRejects
  /\ initRet = "null"
  /\ gen = 1
  /\ \A i \in Images : images[i] = 0

\* An added node of the batch is, or has inside it, an element matching the
\* eligible-image selector.
AddsEligible(batch) == \E n \in batch : n.matches \/ n.inside # {}

\* What the step leaves alone when no strategy method runs.
NoStrategyRun ==
  UNCHANGED <<images, observed, tasks, chains, probes, loads, evLoaded,
              evError>> /\ \A i \in Images : dom'[i].classes = dom[i].classes

\* A step that can be a mutation callback: it resolves no probe and touches
\* no timer, scroll offset or manager field.
CallbackStep ==
  UNCHANGED <<outcomes, delays, timers, throttleTimeout, scrollTop, mgrLoader,
              gen, boot>>

\* C17: while the manager has a strategy, a mutation batch that adds an
\* eligible image (itself or inside an added element) runs the strategy's
\* refresh(), after which every eligible image of the document is registered
\* and the added ones carry the placeholder class; a batch without one runs
\* no strategy method; after destroy() no batch does.
C17_MutationRefreshes ==
  [][CallbackStep =>
      \A batch \in OtherBatches \cup {{ImgNode(i)} : i \in Images} :
        (InsertNodes(batch) \/ \E i \in Images :
                                 batch = {ImgNode(i)} /\ InsertImage(i)) =>
          IF mgrLoader # "none" /\ domObservers > 0 /\ AddsEligible(batch)
          THEN /\ \A i \in Images : dom'[i].inDoc => images'[i] # 0
               /\ \A i \in ImagesOf(batch) :
                     placeholderClass \in dom'[i].classes
          ELSE NoStrategyRun]_vars

\* C17 witness: with the strategy live, image 2 has come into the document
\* after image 1 was loaded, and is registered: in the fallback strategy its
\* task is the third (the refresh registered the loaded image 1 again).
C17_Witness ==
  /\ mgrLoader = "fallback"
  /\ Len(tasks) = 3
  /\ tasks[3].img = 2
  /\ images[2] = 3
  /\ evLoaded[1] = 1

\* C18: a lazyerror event bubbles and its detail holds the error and the
\* attempt count; a lazyloaded event bubbles and its detail holds the image
\* and the resolved URL, which is the image's src.
C18_EventPayloads ==
  \A i \in Images :
    /\ dispatched[i].type = "lazyerror" =>
         /\ dispatched[i].bubbles
         /\ {"error", "attempts"} \subseteq DOMAIN dispatched[i].detail
    /\ dispatched[i].type = "lazyloaded" =>
         /\ dispatched[i].bubbles
         /\ dispatched[i].detail.img = i
         /\ dispatched[i].detail.src = dom[i].src

\* The image of the load() call c.
ImgOf(c) == tasks[c.task].img

\* C19: destroy() leaves every load() call in flight where it is; after
\* destroy() a probe in flight can still report success or failure and a
\* pending retry timer can still fire (while the bounded run has a probe
\* left); a success applies the loaded class and dispatches lazyloaded, a
\* failure under the budget sets the retry timer, the last failure applies
\* the error class and dispatches lazyerror.
C19_DestroyDoesNotCancel ==
  /\ [](Destroyed =>
          \A c \in BagToSet(chains) :
            IF c.st = "probe"
            THEN ENABLED ProbeLoaded(c) /\ ENABLED ProbeFailed(c)
            ELSE (~c.behind /\ ~OutOfBudget) => ENABLED RetryTimer(c))
  /\ [][/\ ManagerDestroy =>
             /\ \A i \in Images : InFlight(i)' = InFlight(i)
             /\ \A c \in BagToSet(chains) :
                  CopiesIn([c EXCEPT !.behind = FALSE], chains') > 0
        /\ Destroyed =>
             \A i \in Images :
               /\ Len(outcomes'[i]) > Len(outcomes[i]) =>
                    \/ /\ loadedClass \in dom'[i].classes
                       /\ evLoaded'[i] = evLoaded[i] + 1
                       /\ dispatched'[i].type = "lazyloaded"
                    \/ /\ InFlight(i)' = InFlight(i)
                       /\ Len(delays'[i]) = Len(delays[i]) + 1
                    \/ /\ errorClass \in dom'[i].classes
                       /\ evError'[i] = evError[i] + 1
                       /\ dispatched'[i].type = "lazyerror"
               /\ InFlight(i)' < InFlight(i) =>
                    Len(outcomes'[i]) > Len(outcomes[i])]_vars

\* C19 witness: destroy() has returned and a load() call of image 2 is in
\* flight, in its second probe.
C19_Witness ==
  /\ Destroyed
  /\ supportsIO
  /\ \E c \in BagToSet(chains) : c.st = "probe" /\ ImgOf(c) = 2
  /\ outcomes[2] = <<"fail">>
  /\ probes[2] = 2

\* A step is the click on target / the keydown of key.
Clicked(target) == nav'.event = <<"click", target>> /\ ClickOn(target)
Pressed(key) == nav'.event = <<"keydown", key>> /\ KeyDown(key)

\* C20: a click on the hamburger flips the menu; a step that changes the menu
\* state leaves aria-expanded equal to it and the 'active' class on the nav
\* menu exactly when it is open; and two consecutive clicks on the hamburger
\* give back the menu state, with aria-expanded and the class agreeing.
C20_MenuStateMirrored ==
  [][/\ Clicked("hamburger") => nav'.isMenuOpen = ~nav.isMenuOpen
     /\ nav'.isMenuOpen # nav.isMenuOpen =>
          /\ nav'.ariaExpanded = BoolString(nav'.isMenuOpen)
          /\ nav'.menuActive = nav'.isMenuOpen
     /\ LET twice == HandleMenuToggle(HandleMenuToggle(nav))
        IN /\ twice.isMenuOpen = nav.isMenuOpen
           /\ twice.menuActive = nav.isMenuOpen
           /\ twice.ariaExpanded = BoolString(nav.isMenuOpen)]_vars

\* C20 witness: on a page whose hamburger had no aria-expanded, the menu has
\* been opened below the breakpoint and closed again.
C20_Witness ==
  /\ ~nav.isMenuOpen
  /\ nav.ariaExpanded = "false"
  /\ nav.focusTimers = 1
  /\ nav.innerWidth < MobileBreakpoint
  /\ nav.focus = "hamburger"

\* C21: a click on a nav link whose href names an existing section requests a
\* scroll to that section, leaves the menu closed, and leaves that link as the
\* only one with class 'active' and the only one with aria-current='page';
\* and of two such clicks in a row the second link is the only one marked.
C21_LinkClickMarksOnlyThatLink ==
  [][\A k \in Links :
       TargetOf(Href(k)) # NoSection =>
         /\ Clicked(k) =>
              /\ nav'.scrollRequest = TargetOf(Href(k))
              /\ ~nav'.isMenuOpen /\ ~nav'.menuActive
              /\ nav'.ariaExpanded = IF nav.isMenuOpen THEN "false"
                                     ELSE nav.ariaExpanded
              /\ nav'.activeClass = {k}
              /\ nav'.ariaCurrent = {k}
         /\ \A j \in Links :
              TargetOf(Href(j)) # NoSection =>
                LET twice == HandleLinkClick(HandleLinkClick(nav, j), k)
                IN twice.activeClass = {k} /\ twice.ariaCurrent = {k}]_vars

\* C21 witness: the menu was opened below the breakpoint, the section observer
\* had marked the first link, and a click on the second link closed the menu,
\* requested the scroll to its section and moved the mark.
C21_Witness ==
  /\ nav.event = <<"click", "link1">>
  /\ nav.scrollRequest = "contact"
  /\ nav.activeClass = {"link1"} /\ nav.ariaCurrent = {"link1"}
  /\ nav.activeSection = "home"
  /\ ~nav.isMenuOpen /\ nav.ariaExpanded = "false"
  /\ nav.bodyOverflow = "" /\ nav.innerWidth < MobileBreakpoint
  /\ nav.focusTimers = 1

\* C22: on a page whose .form-status starts with role='status', the element
\* always carries a role attribute, and the role is 'status' whenever the
\* element is not displaying an error.
C22_StatusRoleKept ==
  /\ form.role # NoAttr
  /\ "error" \notin form.statusClass => form.role = "status"

\* C23: for the text each field holds, validateName accepts the trimmed value
\* exactly when its length is in 2..100 and validateMessage exactly when it is
\* in 10..1000; every validator answers 'required' for an empty trimmed value;
\* and a field marked by validateField shows that verdict: 'valid' only in
\* range, and the 'required' text exactly for an empty trimmed value.
C23_LengthLimits ==
  LET value(f) == Trim(form.fields[f].value)
      InRange(f) ==
        IF f = "name"
        THEN Length(value(f)) >= 2 /\ Length(value(f)) <= 100
        ELSE Length(value(f)) >= 10 /\ Length(value(f)) <= 1000
  IN /\ \A f \in {"name", "message"} :
          /\ (Validator(f, value(f)) = NoError) <=> InRange(f)
          /\ "valid" \in form.fields[f].classes => InRange(f)
          /\ "invalid" \in form.fields[f].classes => ~InRange(f)
     /\ \A f \in Fields :
          /\ Length(value(f)) = 0 => Validator(f, value(f)) = required
          /\ "invalid" \in form.fields[f].classes =>
               (form.fields[f].errorText = required <=> Length(value(f)) = 0)

\* C23 witness: validateField has accepted a name of 100 characters and a
\* message of 1000 characters typed with a space on either side.
C23_Witness ==
  /\ form.fields["name"].value = Text(FALSE, 100, "text")
  /\ "valid" \in form.fields["name"].classes
  /\ form.fields["message"].value = Text(TRUE, 1000, "text")
  /\ "valid" \in form.fields["message"].classes

\* The submit button and the four fields are all disabled / all enabled.
AllDisabled ==
  form.buttonDisabled /\ \A f \in Fields : form.fields[f].disabled
AllEnabled ==
  ~form.buttonDisabled /\ \A f \in Fields : ~form.fields[f].disabled

\* C24: the button and the four fields are all disabled while a request is
\* in flight and all enabled while none is; and, the request settling with
\* any outcome, a disabled form is eventually enabled again.
C24_DisabledWhileInFlight ==
  /\ [](/\ Len(form.requests) > 0 => AllDisabled
        /\ Len(form.requests) = 0 => AllEnabled)
  /\ (AllDisabled ~> AllEnabled)

\* C24 witness: a second valid submission is in flight with the form
\* disabled, the status of the first one still waiting for its hide timer.
C24_Witness ==
  /\ Len(form.requests) = 1
  /\ AllDisabled
  /\ form.buttonText = "Sending..."
  /\ form.hideTimers = 1
  /\ form.statusText = ""

\* Some field of the form fails its validator.
SomeFieldInvalid ==
  \E f \in Fields : Validator(f, Trim(form.fields[f].value)) # NoError

\* C25: a submit with at least one field failing validation sends no request,
\* leaves the button and the fields enabled, keeps every field's value, and
\* shows the submitError message with type 'error'.
C25_InvalidSubmitSendsNothing ==
  [][Submit /\ SomeFieldInvalid =>
       /\ form'.requests = form.requests
       /\ AllEnabled'
       /\ form'.buttonText = form.buttonText
       /\ \A f \in Fields : form'.fields[f].value = form.fields[f].value
       /\ form'.statusText = submitError
       /\ form'.statusClass = {"form-status", "visible", "error"}
       /\ form'.hideTimers = form.hideTimers + 1]_vars

\* C25 witness: a form with a valid name and an invalid e-mail address has
\* been submitted: the error status shows, nothing was sent, the text stays.
C25_Witness ==
  /\ form.statusText = submitError
  /\ form.fields["name"].value = Text(TRUE, 2, "text")
  /\ "valid" \in form.fields["name"].classes
  /\ form.fields["email"].value = Text(FALSE, 13, "text")
  /\ form.fields["email"].errorText = invalidEmail
  /\ form.fields["phone"].errorText = required
  /\ form.requests = <<>>
  /\ AllEnabled

\* C26: when the request of a valid submission settles, an ok response shows
\* the success message and leaves every field empty and without validation
\* state; a response that is not ok shows the submitError message and a
\* rejected fetch the networkError message, both as errors and both with
\* every field's value (and validation state) as it was.
C26_OutcomeDeterminesStatus ==
  [][\A r \in Responses :
       Response(r) =>
         IF r = "ok"
         THEN /\ form'.statusText = submitSuccess
              /\ form'.statusClass = {"form-status", "visible", "success"}
              /\ form'.role = "status"
              /\ \A f \in Fields :
                   /\ form'.fields[f].value = Empty
                   /\ form'.fields[f].classes = {}
                   /\ form'.fields[f].ariaInvalid = NoAttr
                   /\ form'.fields[f].errorText = ""
                   /\ ~form'.fields[f].errorVisible
         ELSE /\ form'.statusText =
                   (IF r = "notok" THEN submitError ELSE networkError)
              /\ form'.statusClass = {"form-status", "visible", "error"}
              /\ form'.role = "alert"
              /\ \A f \in Fields :
                   /\ form'.fields[f].value = form.fields[f].value
                   /\ form'.fields[f].value # Empty
                   /\ form'.fields[f].classes = form.fields[f].classes]_vars

\* C26 witness: after a submission that failed, a second one got an ok
\* response: the success message shows and the form is empty and enabled.
C26_Witness ==
  /\ form.statusText = submitSuccess
  /\ form.role = "status"
  /\ form.hideTimers = 2
  /\ form.requests = <<>>
  /\ AllEnabled
  /\ \A f \in Fields :
       form.fields[f].value = Empty /\ form.fields[f].classes = {}

\* C27: after a submit attempt every field carries the state its own
\* validator gives for its trimmed text: 'valid' with aria-invalid 'false'
\* and no error text, or 'invalid' with aria-invalid 'true' and the
\* validator's message shown, whatever the fields before it gave.
C27_AllFieldsValidated ==
  [][Submit =>
       \A f \in Fields :
         LET error == Validator(f, Trim(form.fields[f].value)) IN
         IF error = NoError
         THEN /\ form'.fields[f].classes = {"valid"}
              /\ form'.fields[f].ariaInvalid = "false"
              /\ form'.fields[f].errorText = ""
              /\ ~form'.fields[f].errorVisible
         ELSE /\ form'.fields[f].classes = {"invalid"}
              /\ form'.fields[f].ariaInvalid = "true"
              /\ form'.fields[f].errorText = error
              /\ form'.fields[f].errorVisible]_vars

\* C27 witness: a submit attempt found the name too short, accepted the
\* e-mail address, and still reported the phone number and the message.
C27_Witness ==
  /\ form.statusText = submitError
  /\ form.fields["name"].errorText = nameTooShort
  /\ form.fields["email"].classes = {"valid"}
  /\ form.fields["phone"].errorText = invalidPhone
  /\ form.fields["message"].errorText = messageTooLong
  /\ form.fields["message"].errorVisible

\* C28: no field ever carries both 'valid' and 'invalid'; aria-invalid is
\* 'true' exactly on a field carrying 'invalid' and 'false' exactly on one
\* carrying 'valid'; and an input event on a field removes that field's
\* classes, aria-invalid and error text and changes no other field.
C28_FieldStatesConsistent ==
  /\ [](\A f \in Fields :
          /\ ~({"valid", "invalid"} \subseteq form.fields[f].classes)
          /\ form.fields[f].ariaInvalid = "true" <=>
               "invalid" \in form.fields[f].classes
          /\ form.fields[f].ariaInvalid = "false" <=>
               "valid" \in form.fields[f].classes)
  /\ [][\A f \in Fields :
          (/\ form'.fields[f].value # form.fields[f].value
           /\ Input(f, form'.fields[f].value)) =>
            /\ form'.fields[f].classes = {}
            /\ form'.fields[f].ariaInvalid = NoAttr
            /\ form'.fields[f].errorText = ""
            /\ ~form'.fields[f].errorVisible
            /\ \A g \in Fields \ {f} : form'.fields[g] = form.fields[g]]_vars

\* C28 witness: after a submit attempt that marked every field, an input into
\* the name field has cleared the name's mark only: the e-mail field is still
\* marked valid, the phone and message fields invalid.
C28_Witness ==
  /\ form.fields["email"].classes = {"valid"}
  /\ form.fields["email"].ariaInvalid = "false"
  /\ form.fields["name"].classes = {}
  /\ form.fields["name"].ariaInvalid = NoAttr
  /\ form.fields["name"].value = Text(FALSE, 1, "text")
  /\ form.fields["phone"].classes = {"invalid"}
  /\ form.fields["phone"].ariaInvalid = "true"
  /\ form.fields["message"].classes = {"invalid"}
  /\ form.statusText = submitError

\* C29: a keydown of Escape while the menu is open closes the menu (state,
\* class, aria-expanded) and focuses the hamburger; a keydown of Escape while
\* it is closed, or of any other key, leaves the menu's state, class,
\* aria-expanded and the body's overflow as they were.
C29_EscapeClosesMenu ==
  [][\A key \in Keys :
       Pressed(key) =>
         IF key = "Escape" /\ nav.isMenuOpen
         THEN /\ ~nav'.isMenuOpen
              /\ ~nav'.menuActive
              /\ nav'.ariaExpanded = "false"
              /\ nav'.focus = "hamburger"
         ELSE /\ nav'.isMenuOpen = nav.isMenuOpen
              /\ nav'.menuActive = nav.menuActive
              /\ nav'.ariaExpanded = nav.ariaExpanded
              /\ nav'.bodyOverflow = nav.bodyOverflow
              /\ nav'.focusTimers = nav.focusTimers]_vars

\* C29 witness: at desktop width an Escape keydown has closed the menu, which
\* had been opened twice, and focused the hamburger while the two focus
\* timers are still pending.
C29_Witness ==
  /\ nav.event = <<"keydown", "Escape">>
  /\ ~nav.isMenuOpen /\ ~nav.menuActive
  /\ nav.ariaExpanded = "false"
  /\ nav.focus = "hamburger"
  /\ nav.focusTimers = 2
  /\ nav.innerWidth >= MobileBreakpoint

\* C30: with the menu open, handleOutsideClick closes it exactly for a target
\* that is neither in the nav menu nor in the hamburger: a click on the rest
\* of the page closes the menu (class and aria-expanded included), a click on
\* the menu beside its links or on a link without a target section leaves it
\* open; and a click on the hamburger flips the menu once, from either state.
C30_OutsideClickCloses ==
  [][/\ nav.isMenuOpen =>
          \A target \in ClickTargets :
            /\ HandleOutsideClick(nav, target).isMenuOpen =
                 (target \in {"menu", "hamburger"} \cup Links)
            /\ Clicked(target) =>
                 /\ target = "page" =>
                      /\ ~nav'.isMenuOpen /\ ~nav'.menuActive
                      /\ nav'.ariaExpanded = "false"
                 /\ (\/ target = "menu"
                     \/ target \in Links /\ TargetOf(Href(target)) = NoSection)
                      => /\ nav'.isMenuOpen /\ nav'.menuActive
                         /\ nav'.ariaExpanded = nav.ariaExpanded
     /\ Clicked("hamburger") =>
          /\ nav'.isMenuOpen = ~nav.isMenuOpen
          /\ nav'.menuActive = ~nav.isMenuOpen
     /\ ~nav.isMenuOpen =>
          \A target \in ClickTargets \ {"hamburger"} :
            Clicked(target) => ~nav'.isMenuOpen]_vars

\* C30 witness: below the breakpoint a click on the rest of the page has
\* closed the open menu and released the body's scroll, the menu's focus
\* timer still pending.
C30_Witness ==
  /\ nav.event = <<"click", "page">>
  /\ ~nav.isMenuOpen /\ ~nav.menuActive
  /\ nav.ariaExpanded = "false"
  /\ nav.bodyOverflow = ""
  /\ nav.focusTimers = 1
  /\ nav.innerWidth < MobileBreakpoint

\* A step is the resize of the window to width w.
Resized(w) == nav'.event = <<"resize", "">> /\ Resize(w)

\* C31: a resize event at a width of 768 px or more leaves the menu closed
\* (state, class, and aria-expanded 'false' if it was open) and the body's
\* overflow empty; a resize event at a smaller width leaves the menu's state,
\* class, aria-expanded and the body's overflow as they were.
C31_ResizeClosesAtDesktop ==
  [][\A w \in Widths :
       Resized(w) =>
         IF w >= 768
         THEN /\ ~nav'.isMenuOpen
              /\ ~nav'.menuActive
              /\ nav'.bodyOverflow = ""
              /\ nav'.ariaExpanded =
                   (IF nav.isMenuOpen THEN "false" ELSE nav.ariaExpanded)
         ELSE /\ nav'.isMenuOpen = nav.isMenuOpen
              /\ nav'.menuActive = nav.menuActive
              /\ nav'.bodyOverflow = nav.bodyOverflow
              /\ nav'.ariaExpanded = nav.ariaExpanded]_vars

\* C31 witness: a resize event at 768 px has left the menu closed and the
\* body's overflow empty, the focus timer of the menu's opening still pending.
C31_Witness ==
  /\ nav.event = <<"resize", "">>
  /\ nav.innerWidth = 768
  /\ ~nav.isMenuOpen /\ ~nav.menuActive
  /\ nav.ariaExpanded = "false"
  /\ nav.bodyOverflow = ""
  /\ nav.focusTimers = 1

\* The index the claim names for a key pressed on link i of n links, -1 for a
\* key that moves no focus.
NamedIndex(key, i, n) ==
  IF key \in {"ArrowDown", "ArrowRight"} THEN (IF i = n - 1 THEN 0 ELSE i + 1)
  ELSE IF key \in {"ArrowUp", "ArrowLeft"} THEN (IF i = 0 THEN n - 1 ELSE i - 1)
  ELSE IF key = "Home" THEN 0
  ELSE IF key = "End" THEN n - 1
  ELSE -1

\* C32: for n links and a key pressed on link i, handleKeyboardNavigation
\* focuses link (i+1) mod n for ArrowDown/ArrowRight, (i-1+n) mod n for
\* ArrowUp/ArrowLeft, 0 for Home, n-1 for End, always an index in 0..n-1, and
\* moves no focus for any other key; and on the page a keydown on the focused
\* link leaves the focus on the link so named.
C32_KeyboardFocusInRange ==
  /\ [](/\ \A n \in 1..MaxLinks : \A i \in 0..(n - 1) : \A key \in Keys :
             /\ KeyTargetIndex(key, i, n) = NamedIndex(key, i, n)
             /\ KeyTargetIndex(key, i, n) \in
                  (IF key \in {"ArrowDown", "ArrowRight", "ArrowUp",
                               "ArrowLeft", "Home", "End"}
                   THEN 0..(n - 1) ELSE {-1})
        /\ nav.focus \in Links =>
             \A key \in Keys :
               LET named == NamedIndex(key, IndexOf(nav.focus), NumLinks)
                   after == HandleKeyboardNavigation(nav, key,
                                                     IndexOf(nav.focus))
               IN after.focus = IF named = -1 THEN nav.focus
                                ELSE LinkAt(named))
  /\ [][\A key \in Keys \ {"Escape"} :
          (Pressed(key) /\ nav.focus \in Links) =>
            LET named == NamedIndex(key, IndexOf(nav.focus), NumLinks)
            IN nav'.focus = IF named = -1 THEN nav.focus
                            ELSE LinkAt(named)]_vars

\* C32 witness: ArrowUp pressed on the first of the three links has moved the
\* focus to the last one.
C32_Witness ==
  /\ nav.event = <<"keydown", "ArrowUp">>
  /\ nav.focus = LinkAt(NumLinks - 1)

\* C33: over a run, at most one lazyloaded event is dispatched on any image.
C33_AtMostOneLoadedEvent ==
  \A i \in Images : evLoaded[i] <= 1

====
